---- MODULE Spec2Model ----
(***************************************************************************)
(* A model of scripts/centroid_calculator.py: the transport-mode advisor,  *)
(* the restaurant scorer and ranker, the departure-time calculator and the *)
(* route-data extractors.  Every component is a pure function of its       *)
(* arguments (rank_restaurants also mutates the list it is given), so the  *)
(* state machine is a caller that makes one call at a time: an action      *)
(* chooses the arguments of one call, runs the whole function and records  *)
(* what it returned or raised.                                             *)
(*                                                                         *)
(* Number representation.  Python floats are modelled by exact fixed-point *)
(* integers: ratings and distances are in tenths (4.8 -> 48, 3.0 km -> 30),*)
(* normalised values are in 1/Unit, scores in 1/Unit as well (100.0 ->     *)
(* 100 * Unit), and a quotient such as seconds / 60.0 is a reduced         *)
(* fraction.  Rounding error of binary floating point is not modelled.     *)
(***************************************************************************)
EXTENDS Integers, Sequences, FiniteSets, TLC

VARIABLES pc, op, args, ret, restaurants, calls

vars == <<pc, op, args, ret, restaurants, calls>>

(***************************************************************************)
(* Python values.  A value is a tagged tuple; a str is a sequence of       *)
(* one-character strings, a dict a sequence of <<key, value>> pairs in     *)
(* insertion order whose keys are char sequences, a float a reduced        *)
(* fraction.  An exception in flight is the value Raise(kind).             *)
(***************************************************************************)
PyNone == <<"none", 0>>

PyInt(n) == <<"int", n>>

PyBool(b) == <<"bool", b>>

PyStr(s) == <<"str", s>>

PyList(l) == <<"list", l>>

PyDict(d) == <<"dict", d>>

Raise(kind) == <<"raise", kind>>

IsRaise(x) == x[1] = "raise"

Min2(a, b) == IF a <= b THEN a ELSE b

Max2(a, b) == IF a >= b THEN a ELSE b

RECURSIVE Gcd(_, _)
Gcd(a, b) == IF b = 0 THEN a ELSE Gcd(b, a % b)

Abs(n) == IF n < 0 THEN -n ELSE n

\* p / q with q > 0, as a reduced fraction <<"float", numerator, denominator>>.
PyFloat(p, q) ==
    LET g == Gcd(Abs(p), q)
    IN  IF p = 0 THEN <<"float", 0, 1>> ELSE <<"float", p \div g, q \div g>>

\* bool(x): None, 0, "", [] and {} are false.
Truthy(x) ==
    CASE x[1] = "none" -> FALSE
      [] x[1] = "int" -> x[2] # 0
      [] x[1] = "bool" -> x[2]
      [] x[1] = "float" -> x[2] # 0
      [] OTHER -> Len(x[2]) > 0

(***************************************************************************)
(* TravelTimeAnalyzer.recommend_transport_mode                             *)
(***************************************************************************)
Sentinel == <<"none", 999, 0>>

\* distance_km, driving_min, transit_min are numbers; bicycle_min is
\* PyNone or PyInt(n).  An entry is <<mode, duration, priority>>.
recommend_transport_mode(distance_km, driving_min, transit_min, bicycle_min) ==
    LET recommendations ==
            IF distance_km <= 3 THEN
                (IF Truthy(bicycle_min) /\ bicycle_min[2] < 30
                    THEN << <<"bicycle", bicycle_min[2], 1>> >> ELSE << >>)
                \o (IF transit_min < 30
                    THEN << <<"subway_bus", transit_min, 2>> >> ELSE << >>)
                \o (IF driving_min < 20
                    THEN << <<"driving", driving_min, 3>> >> ELSE << >>)
            ELSE IF distance_km <= 10 THEN
                (IF driving_min < 40
                    THEN << <<"driving", driving_min, 1>> >> ELSE << >>)
                \o (IF transit_min < 45
                    THEN << <<"subway_bus", transit_min, 2>> >> ELSE << >>)
            ELSE
                (IF driving_min < 60
                    THEN << <<"driving", driving_min, 1>> >> ELSE << >>)
                \o (IF transit_min < 120
                    THEN << <<"bus_subway", transit_min, 2>> >> ELSE << >>)
    IN  IF Len(recommendations) > 0 THEN recommendations ELSE << Sentinel >>

\* Arguments the caller passes: values on both sides of every threshold.
DistanceVals == {0, 3, 4, 10, 11}

MinuteVals == {-1, 0, 19, 20, 29, 30, 39, 40, 44, 45, 59, 60, 119, 120}

BicycleVals == {PyNone} \cup {PyInt(n) : n \in {-1, 0, 1, 29, 30}}

RecommendTransportMode ==
    /\ pc = "idle"
    /\ \E d \in DistanceVals, dr \in MinuteVals, tr \in MinuteVals, b \in BicycleVals :
          /\ args' = [distance_km |-> d, driving_min |-> dr,
                      transit_min |-> tr, bicycle_min |-> b]
          /\ ret' = recommend_transport_mode(d, dr, tr, b)
    /\ op' = "recommend_transport_mode"
    /\ pc' = "done"
    /\ UNCHANGED <<restaurants, calls>>

(***************************************************************************)
(* RestaurantRanker                                                        *)
(***************************************************************************)
\* The fixed-point unit: a normalised value v is the integer v * Unit and a
\* score s the integer s * Unit.
Unit == 5000

ref_reviews_default == 5000

\* 3.0 km, in tenths of a kilometre.
ref_distance_default == 30

\* (value - min_val) / (max_val - min_val), in 1/Unit; 0.5 on an empty range.
normalize_value(value, min_val, max_val) ==
    IF max_val = min_val
        THEN Unit \div 2
        ELSE ((value - min_val) * Unit) \div (max_val - min_val)

\* rating and distance_km in tenths, review_count a count; the score in 1/Unit.
calculate_restaurant_score(rating, review_count, distance_km, ref_reviews, ref_distance) ==
    LET rating_normalized == (rating * Unit) \div 50
        review_normalized == normalize_value(review_count, 0, ref_reviews)
        distance_normalized ==
            IF distance_km <= ref_distance
                THEN Unit - (distance_km * Unit * 3) \div (ref_distance * 10)
                ELSE Max2(0, (7 * Unit) \div 10
                                - ((distance_km - ref_distance) * Unit) \div 100)
    IN  ((rating_normalized * 7 + review_normalized * 2 + distance_normalized * 1)
            * 100) \div 10

RatingVals == {0, 1, 25, 30, 40, 48, 49, 50}

ReviewVals == {0, 1, 100, 2000, 2500, 4999, 5000, 5001, 10000}

Distance10Vals == {0, 1, 10, 29, 30, 31, 50, 99, 100, 101, 500}

CalculateRestaurantScore ==
    /\ pc = "idle"
    /\ \E r \in RatingVals, n \in ReviewVals, d \in Distance10Vals :
          /\ args' = [rating |-> r, review_count |-> n, distance_km |-> d]
          /\ ret' = calculate_restaurant_score(r, n, d, ref_reviews_default,
                                               ref_distance_default)
    /\ op' = "calculate_restaurant_score"
    /\ pc' = "done"
    /\ UNCHANGED <<restaurants, calls>>

\* A venue record is a dict; `has` is the set of keys it holds, and a key it
\* does not hold has the value 0 here.  d.get(key, default):
VenueGet(venue, key, default) ==
    IF key \in venue.has THEN venue[key] ELSE default

\* The distance functions a caller may supply: each maps a venue's location
\* to a distance in tenths of a kilometre, the same one on every call.
Locations == 1..3

DistanceFuncs == {"near_first", "far_first"}

ApplyDistanceFunc(f, location) ==
    IF f = "near_first" THEN 10 * location ELSE 60 - 15 * location

\* A scorer that adds to the score the venue already carries.
ScoreOf_Accumulating(venue, distance_km_func) ==
    VenueGet(venue, "score", 0)
        + calculate_restaurant_score(
              VenueGet(venue, "rating", 0), VenueGet(venue, "review_count", 0),
              IF distance_km_func # "None"
                  THEN ApplyDistanceFunc(distance_km_func, venue.location)
                  ELSE VenueGet(venue, "distance_km", 10),
              ref_reviews_default, ref_distance_default)

\* One pass of the loop body: the score the venue gets.
ScoreOf(venue, distance_km_func) ==
    LET distance ==
            IF distance_km_func # "None"
                THEN ApplyDistanceFunc(distance_km_func, venue.location)
                ELSE VenueGet(venue, "distance_km", 10)
    IN  calculate_restaurant_score(VenueGet(venue, "rating", 0),
                                   VenueGet(venue, "review_count", 0),
                                   distance,
                                   ref_reviews_default, ref_distance_default)

\* restaurant["score"] = ...
SetScore(venue, distance_km_func) ==
    [venue EXCEPT !.score = ScoreOf(venue, distance_km_func),
                  !.has = @ \cup {"score"}]

\* list.sort(key=score, reverse=True) is stable: a venue goes after every
\* venue already placed whose score is not smaller.
\* An unstable sort: a venue goes before the venues it ties with.
RECURSIVE InsertByScore_Unstable(_, _)
InsertByScore_Unstable(sorted, venue) ==
    IF sorted = << >> THEN << venue >>
    ELSE IF Head(sorted).score > venue.score
        THEN << Head(sorted) >> \o InsertByScore_Unstable(Tail(sorted), venue)
        ELSE << venue >> \o sorted

RECURSIVE InsertByScore(_, _)
InsertByScore(sorted, venue) ==
    IF sorted = << >> THEN << venue >>
    ELSE IF Head(sorted).score >= venue.score
        THEN << Head(sorted) >> \o InsertByScore(Tail(sorted), venue)
        ELSE << venue >> \o sorted

RECURSIVE SortByScoreReverse(_, _)
SortByScoreReverse(sorted, rest) ==
    IF rest = << >> THEN sorted
    ELSE SortByScoreReverse(InsertByScore(sorted, Head(rest)), Tail(rest))

\* The contents of the list object after the call (the call returns that
\* same object).
rank_restaurants(list, distance_km_func) ==
    SortByScoreReverse(<< >>,
        [i \in 1..Len(list) |-> SetScore(list[i], distance_km_func)])

MaxVenues == 3

MaxCalls == 2

Venue(id, has, rating, review_count, distance_km, location) ==
    [id |-> id, has |-> has, rating |-> rating, review_count |-> review_count,
     distance_km |-> distance_km, location |-> location, score |-> 0]

AllKeys == {"id", "name", "rating", "review_count", "location", "distance_km"}

\* Venues 1 and 2 tie on every input; venue 3 has more reviews than the
\* reference; venue 4 lacks rating, review_count and distance_km.
VenuePool ==
    { Venue(1, AllKeys, 48, 2000, 10, 1),
      Venue(2, AllKeys, 48, 2000, 10, 1),
      Venue(3, AllKeys, 50, 10000, 0, 2),
      Venue(4, {"id", "name", "location"}, 0, 0, 0, 3),
      Venue(5, AllKeys \ {"distance_km"}, 30, 100, 0, 3),
      Venue(6, AllKeys, 49, 0, 50, 2) }

\* Lists of distinct venues, at most MaxVenues long.
VenueLists ==
    UNION { { l \in [1..n -> VenuePool] :
                \A i, j \in 1..n : i # j => l[i].id # l[j].id } : n \in 0..MaxVenues }

\* A call on a list the caller built, or another call on the list the last
\* call returned, with the same distance function.
RankRestaurants ==
    /\ \/ /\ pc = "idle"
          /\ \E l \in VenueLists, f \in DistanceFuncs \cup {"None"} :
                /\ args' = [restaurants |-> l, distance_km_func |-> f]
                /\ restaurants' = rank_restaurants(l, f)
          /\ calls' = 1
       \/ /\ pc = "done"
          /\ op = "rank_restaurants"
          /\ calls < MaxCalls
          /\ args' = [restaurants |-> restaurants,
                      distance_km_func |-> args.distance_km_func]
          /\ restaurants' = rank_restaurants(restaurants, args.distance_km_func)
          /\ calls' = calls + 1
    /\ ret' = "restaurants"
    /\ op' = "rank_restaurants"
    /\ pc' = "done"

(***************************************************************************)
(* Strings: str.split, str.strip, int(str), format(n, "02d").              *)
(***************************************************************************)
DigitSeq == <<"0", "1", "2", "3", "4", "5", "6", "7", "8", "9">>

IsDigit(c) == \E i \in 1..10 : DigitSeq[i] = c

DigitVal(c) == (CHOOSE i \in 1..10 : DigitSeq[i] = c) - 1

\* s.split(sep) for a one-character sep: the fields between the separators.
RECURSIVE Split(_, _)
Split(s, sep) ==
    IF \A i \in 1..Len(s) : s[i] # sep THEN << s >>
    ELSE LET k == CHOOSE i \in 1..Len(s) :
                    s[i] = sep /\ \A j \in 1..(i - 1) : s[j] # sep
         IN  << SubSeq(s, 1, k - 1) >> \o Split(SubSeq(s, k + 1, Len(s)), sep)

\* s.strip(): without its leading and trailing blanks.
RECURSIVE Strip(_)
Strip(s) ==
    IF s = << >> THEN s
    ELSE IF Head(s) = " " THEN Strip(Tail(s))
    ELSE IF s[Len(s)] = " " THEN Strip(SubSeq(s, 1, Len(s) - 1))
    ELSE s

RECURSIVE DecimalValue(_)
DecimalValue(digits) ==
    IF digits = << >> THEN 0
    ELSE 10 * DecimalValue(SubSeq(digits, 1, Len(digits) - 1))
            + DigitVal(digits[Len(digits)])

\* int(s) for a str s: blanks around, an optional sign, then digits only
\* (the "_" digit separator is not in the alphabet of the model).
IntOfChars(s) ==
    LET t == Strip(s)
        signed == t # << >> /\ Head(t) \in {"+", "-"}
        digits == IF signed THEN Tail(t) ELSE t
    IN  IF digits = << >> \/ \E i \in 1..Len(digits) : ~IsDigit(digits[i])
            THEN Raise("ValueError")
            ELSE PyInt(IF signed /\ Head(t) = "-"
                          THEN -DecimalValue(digits) ELSE DecimalValue(digits))

RECURSIVE Decimal(_)
Decimal(n) ==
    IF n < 10 THEN << DigitSeq[n + 1] >>
    ELSE Decimal(n \div 10) \o << DigitSeq[(n % 10) + 1] >>

\* f"{n:02d}": the decimal digits, sign included, zero-padded to width 2.
Format02d(n) ==
    IF n < 0 THEN << "-" >> \o Decimal(-n)
    ELSE IF n < 10 THEN << "0" >> \o Decimal(n)
    ELSE Decimal(n)

(***************************************************************************)
(* datetime.strptime(s, "%H:%M"), timedelta and strftime("%H:%M").         *)
(***************************************************************************)
\* The lengths %H may take at the head of s, in the order the regular
\* expression 2[0-3]|[0-1]\d|\d tries them.
HourMatches(s) ==
    (IF Len(s) >= 2 /\ s[1] = "2" /\ s[2] \in {"0", "1", "2", "3"}
        THEN << 2 >> ELSE << >>)
    \o (IF Len(s) >= 2 /\ s[1] \in {"0", "1"} /\ IsDigit(s[2])
        THEN << 2 >> ELSE << >>)
    \o (IF Len(s) >= 1 /\ IsDigit(s[1]) THEN << 1 >> ELSE << >>)

\* The same for %M, [0-5]\d|\d.
MinuteMatches(s) ==
    (IF Len(s) >= 2 /\ s[1] \in {"0", "1", "2", "3", "4", "5"} /\ IsDigit(s[2])
        THEN << 2 >> ELSE << >>)
    \o (IF Len(s) >= 1 /\ IsDigit(s[1]) THEN << 1 >> ELSE << >>)

\* A datetime on 1900-01-01 plus `day` days.
DateTime(day, hour, minute) == <<"datetime", day, hour, minute>>

DayOf(dt) == dt[2]

HourOf(dt) == dt[3]

MinuteOf(dt) == dt[4]

\* The first way the pattern matches a prefix of s; the whole of s must be
\* consumed, else "unconverted data remains".
Strptime(s) ==
    LET hs == HourMatches(s)
        Rest(h) == SubSeq(s, h + 2, Len(s))
        Fits(h) == Len(s) > h /\ s[h + 1] = ":" /\ MinuteMatches(Rest(h)) # << >>
        good == { i \in 1..Len(hs) : Fits(hs[i]) }
    IN  IF good = {} THEN Raise("ValueError")
        ELSE LET i == CHOOSE k \in good : \A j \in good : k <= j
                 h == hs[i]
                 m == MinuteMatches(Rest(h))[1]
             IN  IF h + 1 + m # Len(s) THEN Raise("ValueError")
                 ELSE DateTime(0, DecimalValue(SubSeq(s, 1, h)),
                               DecimalValue(SubSeq(s, h + 2, h + 1 + m)))

\* A subtraction that stops at midnight instead of borrowing a day.
MinusMinutes_NoRollover(dt, total_min) ==
    LET t == Max2(0, HourOf(dt) * 60 + MinuteOf(dt) - total_min)
    IN  DateTime(DayOf(dt), t \div 60, t % 60)

\* dt - timedelta(minutes=total_min), for whole minutes.
MinusMinutes(dt, total_min) ==
    LET t == DayOf(dt) * 1440 + HourOf(dt) * 60 + MinuteOf(dt) - total_min
    IN  DateTime(t \div 1440, (t % 1440) \div 60, t % 60)

\* dt.strftime("%H:%M")
Strftime(dt) == Format02d(HourOf(dt)) \o << ":" >> \o Format02d(MinuteOf(dt))

(***************************************************************************)
(* DepartureTimeCalculator.calculate_departure_times                       *)
(***************************************************************************)
\* hours, minutes = map(int, meeting_time.split(":")), then strptime of the
\* two numbers formatted again: a datetime, or Raise("ValueError").
ParseMeetingTime(meeting_time) ==
    LET fields == Split(meeting_time, ":")
        ints == [i \in 1..Len(fields) |-> IntOfChars(fields[i])]
    IN  IF \E i \in 1..Len(ints) : IsRaise(ints[i]) THEN Raise("ValueError")
        ELSE IF Len(ints) # 2 THEN Raise("ValueError")
        ELSE Strptime(Format02d(ints[1][2]) \o << ":" >> \o Format02d(ints[2][2]))

\* A loop that stops one participant early.
LoopCount_OffByOne(participants, travel_times) ==
    Min2(Len(participants), Len(travel_times) - 1)

\* The number of passes of the loop: it stops at the first participant
\* without a travel time.
LoopCount(participants, travel_times) ==
    Min2(Len(participants), Len(travel_times))

DepartureEntry(meeting, person, travel_min, buffer_min) ==
    LET total_min == travel_min + buffer_min
        departure == MinusMinutes(meeting, total_min)
    IN  [name |-> person, travel_min |-> travel_min, buffer_min |-> buffer_min,
         departure_time |-> Strftime(departure),
         arrival_time |-> Strftime(meeting)]

calculate_departure_times(meeting_time, participants, travel_times, buffer_min) ==
    LET meeting == ParseMeetingTime(meeting_time)
    IN  IF IsRaise(meeting) THEN Raise("ValueError")
        ELSE PyList([i \in 1..LoopCount(participants, travel_times) |->
                        DepartureEntry(meeting, participants[i],
                                       travel_times[i], buffer_min)])

MaxTimeLen == 5

MaxPeople == 4

MaxTravel == 3

buffer_min_default == 5

TimeChars == {"0", "1", "2", "3", "4", "9", ":", " "}

\* Every string over TimeChars of at most MaxTimeLen characters.
TimeStrings == UNION { [1..n -> TimeChars] : n \in 0..MaxTimeLen }

SampleTimes == { <<"1", "4", ":", "3", "0">>, <<"0", "0", ":", "1", "0">>,
                 <<"2", "3", ":", "4", "9">>, <<"0", "9", ":", "0", "4">> }

NameList == <<"A", "B", "C", "D", "E", "F", "G", "H">>

\* The first n names.
ParticipantLists == { SubSeq(NameList, 1, n) : n \in 0..Min2(MaxPeople, Len(NameList)) }

TravelVals == {6, 17, 19, 1500}

TravelLists == UNION { [1..n -> TravelVals] : n \in 0..MaxTravel }

\* Any string with the lists of the docstring's example, and the sample
\* times with every list.
DepartureInputs ==
    { <<t, SubSeq(NameList, 1, 3), <<19, 6, 17>>, buffer_min_default>> : t \in TimeStrings }
    \cup (SampleTimes \X ParticipantLists \X TravelLists \X {0, buffer_min_default})

CalculateDepartureTimes ==
    /\ pc = "idle"
    /\ \E in \in DepartureInputs :
          /\ args' = [meeting_time |-> in[1], participants |-> in[2],
                      travel_times |-> in[3], buffer_min |-> in[4]]
          /\ ret' = calculate_departure_times(in[1], in[2], in[3], in[4])
    /\ op' = "calculate_departure_times"
    /\ pc' = "done"
    /\ UNCHANGED <<restaurants, calls>>

(***************************************************************************)
(* The operations of Python the extractors apply to a provider response:   *)
(* each gives a value or Raise(kind).                                      *)
(***************************************************************************)
kRoute == <<"r", "o", "u", "t", "e">>

kPaths == <<"p", "a", "t", "h", "s">>

kTransits == <<"t", "r", "a", "n", "s", "i", "t", "s">>

kDuration == <<"d", "u", "r", "a", "t", "i", "o", "n">>

kDistance == <<"d", "i", "s", "t", "a", "n", "c", "e">>

kSegments == <<"s", "e", "g", "m", "e", "n", "t", "s">>

kWalking == <<"w", "a", "l", "k", "i", "n", "g">>

kRailway == <<"r", "a", "i", "l", "w", "a", "y">>

kBus == <<"b", "u", "s">>

kBuslines == <<"b", "u", "s", "l", "i", "n", "e", "s">>

kName == <<"n", "a", "m", "e">>

kDepartureStop == <<"d", "e", "p", "a", "r", "t", "u", "r", "e", "_", "s", "t", "o", "p">>

kArrivalStop == <<"a", "r", "r", "i", "v", "a", "l", "_", "s", "t", "o", "p">>

\* Run the rest of the block on x unless x is an exception in flight.
Bind(x, Rest(_)) == IF IsRaise(x) THEN x ELSE Rest(x)

DictHas(d, k) == \E i \in 1..Len(d) : d[i][1] = k

DictLookup(d, k) == d[CHOOSE i \in 1..Len(d) : d[i][1] = k][2]

IsSubstring(a, b) ==
    \E i \in 0..(Len(b) - Len(a)) : SubSeq(b, i + 1, i + Len(a)) = a

\* k in x, for a str k: a key of a dict, an element of a list, a substring
\* of a str; anything else is not iterable.
Contains(k, x) ==
    CASE x[1] = "dict" -> PyBool(DictHas(x[2], k))
      [] x[1] = "list" -> PyBool(\E i \in 1..Len(x[2]) : x[2][i] = PyStr(k))
      [] x[1] = "str" -> PyBool(IsSubstring(k, x[2]))
      [] OTHER -> Raise("TypeError")

\* x[k], for a str k.
GetItem(x, k) ==
    CASE x[1] = "dict" ->
            IF DictHas(x[2], k) THEN DictLookup(x[2], k) ELSE Raise("KeyError")
      [] OTHER -> Raise("TypeError")

\* x[0]: the first element of a list, the first character of a str; the
\* keys of a dict are strs, so 0 is none of them.
Index0(x) ==
    CASE x[1] = "list" ->
            IF Len(x[2]) > 0 THEN x[2][1] ELSE Raise("IndexError")
      [] x[1] = "str" ->
            IF Len(x[2]) > 0 THEN PyStr(<< x[2][1] >>) ELSE Raise("IndexError")
      [] x[1] = "dict" -> Raise("KeyError")
      [] OTHER -> Raise("TypeError")

\* x.get(k, default): only a dict has the method.
Get(x, k, default) ==
    CASE x[1] = "dict" ->
            IF DictHas(x[2], k) THEN DictLookup(x[2], k) ELSE default
      [] OTHER -> Raise("AttributeError")

\* len(x)
LenOf(x) ==
    CASE x[1] \in {"dict", "list", "str"} -> PyInt(Len(x[2]))
      [] OTHER -> Raise("TypeError")

\* int(x)
IntOf(x) ==
    CASE x[1] = "int" -> x
      [] x[1] = "str" -> IntOfChars(x[2])
      [] OTHER -> Raise("TypeError")

\* What `for item in x` visits: the elements of a list, the characters of a
\* str, the keys of a dict.
Elements(x) ==
    CASE x[1] = "list" -> x
      [] x[1] = "str" -> PyList([i \in 1..Len(x[2]) |-> PyStr(<< x[2][i] >>)])
      [] x[1] = "dict" -> PyList([i \in 1..Len(x[2]) |-> PyStr(x[2][i][1])])
      [] OTHER -> Raise("TypeError")

\* except (KeyError, TypeError, ValueError): the handler's value replaces
\* these three; any other exception leaves the function.
Caught == {"KeyError", "TypeError", "ValueError"}

TryExcept(body, handler) ==
    IF IsRaise(body) /\ body[2] \in Caught THEN handler ELSE body

(***************************************************************************)
(* TravelTimeExtractor                                                     *)
(***************************************************************************)
\* api_response["route"][key] when both `in` tests pass, else NotThere.
NotThere == <<"notthere", 0>>

RouteField(api_response, key) ==
    Bind(Contains(kRoute, api_response), LAMBDA c1 :
        IF ~c1[2] THEN NotThere
        ELSE Bind(GetItem(api_response, kRoute), LAMBDA route :
            Bind(Contains(key, route), LAMBDA c2 :
                IF ~c2[2] THEN NotThere
                ELSE GetItem(route, key))))

extract_driving_time(api_response) ==
    TryExcept(
        Bind(RouteField(api_response, kPaths), LAMBDA paths :
            IF paths = NotThere \/ ~Truthy(paths) THEN PyNone
            ELSE Bind(LenOf(paths), LAMBDA n :
                IF ~(n[2] > 0) THEN PyNone
                ELSE Bind(Index0(paths), LAMBDA first :
                    Bind(Get(first, kDuration, PyInt(0)), LAMBDA duration :
                        Bind(IntOf(duration), LAMBDA duration_seconds :
                            PyFloat(duration_seconds[2], 60)))))),
        PyNone)

\* float('inf'), the start of the running minimum.
Inf == <<"inf", 0>>

\* The loop over the itineraries: the smallest int(transit.get("duration", 0)).
RECURSIVE MinDuration(_, _)
MinDuration(items, min_duration) ==
    IF items = << >> THEN min_duration
    ELSE Bind(Get(Head(items), kDuration, PyInt(0)), LAMBDA duration :
            Bind(IntOf(duration), LAMBDA duration_seconds :
                MinDuration(Tail(items),
                    IF min_duration = Inf THEN duration_seconds
                    ELSE PyInt(Min2(min_duration[2], duration_seconds[2])))))

extract_transit_time(api_response) ==
    TryExcept(
        Bind(RouteField(api_response, kTransits), LAMBDA transits :
            IF transits = NotThere \/ ~Truthy(transits) THEN PyNone
            ELSE Bind(Elements(transits), LAMBDA items :
                Bind(MinDuration(items[2], Inf), LAMBDA min_duration :
                    IF min_duration = Inf THEN PyNone
                    ELSE PyFloat(min_duration[2], 60)))),
        PyNone)

\* min(transits, key=lambda t: int(t.get("duration", 0))): the key of every
\* item is computed in turn, and the first item with the least key wins.
RECURSIVE DurationKeys(_)
DurationKeys(items) ==
    IF items = << >> THEN PyList(<< >>)
    ELSE Bind(Get(Head(items), kDuration, PyInt(0)), LAMBDA duration :
            Bind(IntOf(duration), LAMBDA key :
                Bind(DurationKeys(Tail(items)), LAMBDA rest :
                    PyList(<< key[2] >> \o rest[2]))))

ShortestTransit(items) ==
    Bind(DurationKeys(items), LAMBDA keys :
        items[CHOOSE i \in 1..Len(items) :
                /\ \A j \in 1..Len(items) : keys[2][i] <= keys[2][j]
                /\ \A j \in 1..(i - 1) : keys[2][j] > keys[2][i]])

FloatAdd(a, b) == PyFloat(a[2] * b[3] + b[2] * a[3], a[3] * b[3])

\* The running totals of the loop over the segments.
Totals(walking_time, transit_time, transfer_count, route_details) ==
    <<"totals", walking_time, transit_time, transfer_count, route_details>>

\* x.get(key, {}).get("name", "")
StopName(x, key) ==
    Bind(Get(x, key, PyDict(<< >>)), LAMBDA stop : Get(stop, kName, PyStr(<< >>)))

\* if "walking" in segment: ...
WalkingPart(segment, t) ==
    Bind(Contains(kWalking, segment), LAMBDA c :
        IF ~c[2] THEN t
        ELSE Bind(GetItem(segment, kWalking), LAMBDA walking :
            Bind(Get(walking, kDuration, PyInt(0)), LAMBDA duration :
                Bind(IntOf(duration), LAMBDA seconds :
                    Bind(Get(walking, kDistance, PyInt(0)), LAMBDA distance :
                        Bind(IntOf(distance), LAMBDA walk_distance :
                            Totals(FloatAdd(t[2], PyFloat(seconds[2], 60)), t[3], t[4],
                                   Append(t[5], <<"walking", PyFloat(seconds[2], 60),
                                                  walk_distance[2]>>))))))))

\* A line whose running time is added but which is not counted as a transfer.
LinePart_NoTransfer(type, line, t) ==
    Bind(Get(line, kDuration, PyInt(0)), LAMBDA duration :
        Bind(IntOf(duration), LAMBDA seconds :
            Totals(t[2], FloatAdd(t[3], PyFloat(seconds[2], 60)), t[4],
                   Append(t[5], <<type, PyFloat(seconds[2], 60),
                                  PyStr(<< >>), PyStr(<< >>), PyStr(<< >>)>>))))

\* The railway or bus line `line`: its running time, one transfer, its entry.
LinePart(type, line, t) ==
    Bind(Get(line, kDuration, PyInt(0)), LAMBDA duration :
        Bind(IntOf(duration), LAMBDA seconds :
            Bind(StopName(line, kDepartureStop), LAMBDA departure :
                Bind(StopName(line, kArrivalStop), LAMBDA arrival :
                    Bind(Get(line, kName, PyStr(<< >>)), LAMBDA line_name :
                        Totals(t[2], FloatAdd(t[3], PyFloat(seconds[2], 60)), t[4] + 1,
                               Append(t[5], <<type, PyFloat(seconds[2], 60),
                                              line_name, departure, arrival>>)))))))

\* if "railway" in segment: ...
RailwayPart(segment, t) ==
    Bind(Contains(kRailway, segment), LAMBDA c :
        IF ~c[2] THEN t
        ELSE Bind(GetItem(segment, kRailway), LAMBDA railway :
                LinePart("railway", railway, t)))

\* if "bus" in segment: ... the first of its bus lines, if it has any.
BusPart(segment, t) ==
    Bind(Contains(kBus, segment), LAMBDA c :
        IF ~c[2] THEN t
        ELSE Bind(GetItem(segment, kBus), LAMBDA bus_segment :
            Bind(Get(bus_segment, kBuslines, PyList(<< >>)), LAMBDA buslines :
                IF ~Truthy(buslines) THEN t
                ELSE Bind(Index0(buslines), LAMBDA bus :
                        LinePart("bus", bus, t)))))

RECURSIVE SegmentLoop(_, _)
SegmentLoop(segments, t) ==
    IF segments = << >> THEN t
    ELSE Bind(WalkingPart(Head(segments), t), LAMBDA t1 :
            Bind(RailwayPart(Head(segments), t1), LAMBDA t2 :
                Bind(BusPart(Head(segments), t2), LAMBDA t3 :
                    SegmentLoop(Tail(segments), t3))))

FloatZero == PyFloat(0, 1)

\* The dict the function returns, its values in the order of its keys:
\* total_time, pure_transit_time, walking_time, transfer_count,
\* transfer_time, route_details.
extract_transit_details(api_response) ==
    TryExcept(
        Bind(RouteField(api_response, kTransits), LAMBDA transits :
            IF transits = NotThere \/ ~Truthy(transits) THEN PyNone
            ELSE Bind(Elements(transits), LAMBDA items :
                Bind(ShortestTransit(items[2]), LAMBDA shortest_transit :
                    Bind(Get(shortest_transit, kDuration, PyInt(0)), LAMBDA duration :
                    Bind(IntOf(duration), LAMBDA total_seconds :
                    Bind(Get(shortest_transit, kSegments, PyList(<< >>)), LAMBDA segs :
                    Bind(Elements(segs), LAMBDA segments :
                    Bind(SegmentLoop(segments[2], Totals(FloatZero, FloatZero, 0, << >>)),
                         LAMBDA t :
                            <<"details", PyFloat(total_seconds[2], 60), t[3], t[2], t[4],
                              PyFloat(t[4] * 4, 1), t[5]>>)))))))),
        PyNone)

extract_bicycling_time(api_response) ==
    TryExcept(
        Bind(Contains(kRoute, api_response), LAMBDA c :
            IF ~c[2] THEN PyNone
            ELSE Bind(GetItem(api_response, kRoute), LAMBDA route :
                Bind(Get(route, kDuration, PyInt(0)), LAMBDA duration :
                    Bind(IntOf(duration), LAMBDA duration_seconds :
                        IF duration_seconds[2] > 0
                            THEN PyFloat(duration_seconds[2], 60) ELSE PyNone)))),
        PyNone)

extract_distance(api_response) ==
    TryExcept(
        Bind(Contains(kRoute, api_response), LAMBDA c :
            IF ~c[2] THEN PyNone
            ELSE Bind(GetItem(api_response, kRoute), LAMBDA route :
                Bind(Get(route, kDistance, PyInt(0)), LAMBDA distance :
                    Bind(IntOf(distance), LAMBDA distance_meters :
                        IF distance_meters[2] > 0
                            THEN PyFloat(distance_meters[2], 1000) ELSE PyNone)))),
        PyNone)

(***************************************************************************)
(* Provider responses: well formed, partly missing, and of the wrong type  *)
(* at every level.                                                         *)
(***************************************************************************)
MaxSegments == 2

MaxPaths == 2

D1(k, v) == PyDict(<< <<k, v>> >>)

D2(k1, v1, k2, v2) == PyDict(<< <<k1, v1>>, <<k2, v2>> >>)

\* A dict with each of the two keys present or absent.
Optional2(k1, vals1, k2, vals2) ==
    {PyDict(<< >>)}
    \cup {D1(k1, v) : v \in vals1}
    \cup {D1(k2, w) : w \in vals2}
    \cup {D2(k1, v, k2, w) : v \in vals1, w \in vals2}

\* Seconds and metres as the provider sends them: numbers or numeric strs.
NumberVals == {PyInt(0), PyInt(120), PyStr(<<"9", "0">>)}

\* What stands where a number is expected in a malformed response.
NotNumberVals == {PyNone, PyStr(<<"x">>), PyList(<< >>)}

\* What stands where a mapping or a list is expected in a malformed response.
WrongTypeVals ==
    {PyNone, PyInt(5), PyStr(<<"x">>), PyList(<< >>), PyList(<< PyInt(1) >>)}

\* A str or a list in which `key in x` is true although x is no mapping.
Lookalikes(key) == {PyStr(key), PyList(<< PyStr(key) >>)}

PathElems ==
    {PyNone, PyStr(<<"x">>), PyDict(<< >>)}
    \cup {D1(kDuration, v) : v \in NumberVals \cup NotNumberVals}

PathsVals ==
    WrongTypeVals \cup {PyDict(<< >>), D1(kName, PyInt(1))}
    \cup UNION { {PyList(l) : l \in [1..n -> PathElems]} : n \in 1..MaxPaths }

StopVals == {D1(kName, PyStr(<<"S">>)), PyDict(<< >>), PyNone}

LineVals ==
    { PyDict(<< <<kDuration, PyInt(120)>>, <<kName, PyStr(<<"L">>)>>,
                <<kDepartureStop, D1(kName, PyStr(<<"S">>))>>,
                <<kArrivalStop, D1(kName, PyStr(<<"T">>))>> >>),
      D2(kDuration, PyStr(<<"9", "0">>), kDepartureStop, PyNone),
      D1(kDuration, PyStr(<<"x">>)),
      PyDict(<< >>),
      PyNone }

BusVals ==
    { D1(kBuslines, PyList(<< D1(kDuration, PyInt(120)), D1(kDuration, PyInt(0)) >>)),
      D1(kBuslines, PyList(<< PyNone >>)),
      D1(kBuslines, PyList(<< >>)),
      D1(kBuslines, PyStr(<<"x">>)),
      D1(kBuslines, PyInt(5)),
      PyDict(<< >>),
      PyNone }

WalkingVals ==
    { D2(kDuration, PyStr(<<"9", "0">>), kDistance, PyInt(120)),
      D1(kDuration, PyInt(120)),
      D1(kDistance, PyStr(<<"x">>)),
      PyNone }

Segments ==
    {D1(kWalking, w) : w \in WalkingVals}
    \cup {D1(kRailway, l) : l \in LineVals}
    \cup {D1(kBus, b) : b \in BusVals}
    \cup { D2(kWalking, D1(kDuration, PyInt(120)),
              kBus, D1(kBuslines, PyList(<< D1(kDuration, PyStr(<<"9", "0">>)) >>))),
           PyDict(<< >>), PyNone, PyStr(kWalking), PyList(<< PyStr(kBus) >>) }

SegmentsVals ==
    WrongTypeVals \cup {PyDict(<< >>), D1(kWalking, PyInt(1))}
    \cup UNION { {PyList(l) : l \in [1..n -> Segments]} : n \in 1..MaxSegments }

TransitElems ==
    {PyNone, PyStr(<<"x">>)}
    \cup Optional2(kDuration, NumberVals \cup NotNumberVals, kSegments, SegmentsVals)

\* The itineraries that come in pairs: equal and different durations, one
\* without a duration, one that is no mapping.
PairedTransits ==
    { D2(kDuration, PyInt(120), kSegments, PyList(<< D1(kWalking, D1(kDuration, PyInt(120))) >>)),
      D2(kDuration, PyInt(120), kSegments, PyList(<< D1(kRailway, D1(kDuration, PyInt(120))) >>)),
      D1(kDuration, PyStr(<<"9", "0">>)),
      D1(kSegments, PyList(<< >>)),
      D1(kDuration, PyStr(<<"x">>)),
      PyNone }

TransitsVals ==
    WrongTypeVals \cup {PyDict(<< >>), D1(kName, PyInt(1))}
    \cup {PyList(<< t >>) : t \in TransitElems}
    \cup {PyList(<< t, u >>) : t \in PairedTransits, u \in PairedTransits}

RouteVals ==
    WrongTypeVals
    \cup Lookalikes(kPaths) \cup Lookalikes(kTransits)
    \cup {D1(kPaths, p) : p \in PathsVals}
    \cup {D1(kTransits, t) : t \in TransitsVals}
    \cup Optional2(kDuration, NumberVals \cup NotNumberVals,
                   kDistance, NumberVals \cup NotNumberVals)

Responses ==
    WrongTypeVals \cup Lookalikes(kRoute) \cup {PyDict(<< >>)}
    \cup {D1(kRoute, r) : r \in RouteVals}

ExtractDrivingTime ==
    /\ pc = "idle"
    /\ \E r \in Responses :
          /\ args' = [api_response |-> r]
          /\ ret' = extract_driving_time(r)
    /\ op' = "extract_driving_time"
    /\ pc' = "done"
    /\ UNCHANGED <<restaurants, calls>>

ExtractTransitTime ==
    /\ pc = "idle"
    /\ \E r \in Responses :
          /\ args' = [api_response |-> r]
          /\ ret' = extract_transit_time(r)
    /\ op' = "extract_transit_time"
    /\ pc' = "done"
    /\ UNCHANGED <<restaurants, calls>>

ExtractTransitDetails ==
    /\ pc = "idle"
    /\ \E r \in Responses :
          /\ args' = [api_response |-> r]
          /\ ret' = extract_transit_details(r)
    /\ op' = "extract_transit_details"
    /\ pc' = "done"
    /\ UNCHANGED <<restaurants, calls>>

ExtractBicyclingTime ==
    /\ pc = "idle"
    /\ \E r \in Responses :
          /\ args' = [api_response |-> r]
          /\ ret' = extract_bicycling_time(r)
    /\ op' = "extract_bicycling_time"
    /\ pc' = "done"
    /\ UNCHANGED <<restaurants, calls>>

ExtractDistance ==
    /\ pc = "idle"
    /\ \E r \in Responses :
          /\ args' = [api_response |-> r]
          /\ ret' = extract_distance(r)
    /\ op' = "extract_distance"
    /\ pc' = "done"
    /\ UNCHANGED <<restaurants, calls>>

(***************************************************************************)
(* The caller.                                                             *)
(***************************************************************************)
NoArgs == [none |-> TRUE]

Init ==
    /\ pc = "idle"
    /\ op = "none"
    /\ args = NoArgs
    /\ ret = PyNone
    /\ restaurants = << >>
    /\ calls = 0

\* The call has returned (or raised); the caller drops its results.
Return ==
    /\ pc = "done"
    /\ pc' = "idle"
    /\ op' = "none"
    /\ args' = NoArgs
    /\ ret' = PyNone
    /\ restaurants' = << >>
    /\ calls' = 0

Next ==
    \/ RecommendTransportMode
    \/ CalculateRestaurantScore
    \/ RankRestaurants
    \/ CalculateDepartureTimes
    \/ ExtractDrivingTime
    \/ ExtractTransitTime
    \/ ExtractTransitDetails
    \/ ExtractBicyclingTime
    \/ ExtractDistance
    \/ Return

Spec == Init /\ [][Next]_vars

(***************************************************************************)
(* Claims about recommend_transport_mode.                                  *)
(***************************************************************************)
IsRecommend == pc = "done" /\ op = "recommend_transport_mode"

\* ret offers `mode` with `priority`.
Offers(modes, priority) ==
    \E i \in 1..Len(ret) : ret[i][1] \in modes /\ ret[i][3] = priority

Supplied(bicycle_min) == bicycle_min # PyNone

\* The bracket rules as the claims word them.
BicycleClears == /\ args.distance_km <= 3
                 /\ Supplied(args.bicycle_min)
                 /\ args.bicycle_min[2] < 30

TransitClears ==
    IF args.distance_km <= 3 THEN args.transit_min < 30
    ELSE IF args.distance_km <= 10 THEN args.transit_min < 45
    ELSE args.transit_min < 120

DrivingClears ==
    IF args.distance_km <= 3 THEN args.driving_min < 20
    ELSE IF args.distance_km <= 10 THEN args.driving_min < 40
    ELSE args.driving_min < 60

TransitModes == {"subway_bus", "bus_subway"}

\* C1: the result is never empty; it is exactly the one sentinel entry
\* (duration 999, priority 0) if and only if no mode clears its bracket
\* threshold; and the sentinel never stands beside a real entry.
C1_NonEmptySentinelIffNoMode ==
    IsRecommend =>
        /\ Len(ret) >= 1
        /\ (ret = << Sentinel >>)
              <=> ~(BicycleClears \/ TransitClears \/ DrivingClears)
        /\ (\E i \in 1..Len(ret) : ret[i] = Sentinel) => Len(ret) = 1

\* C10: bicycling (priority 1) exactly when distance <= 3, a bicycling
\* duration was supplied and it is < 30; transit and driving exactly when
\* they are under the bracket's threshold, with the bracket's priorities
\* (<= 3 km: transit 2, driving 3; otherwise driving 1, transit 2); the
\* entries are in strictly increasing priority order.
C10_BracketRules ==
    IsRecommend =>
        /\ Offers({"bicycle"}, 1) <=> BicycleClears
        /\ (\E i \in 1..Len(ret) : ret[i][1] = "bicycle") => args.distance_km <= 3
        /\ Offers(TransitModes, 2) <=> TransitClears
        /\ Offers({"driving"}, IF args.distance_km <= 3 THEN 3 ELSE 1) <=> DrivingClears
        /\ \A i \in 1..Len(ret) : ret[i] = Sentinel \/
              \/ ret[i][1] = "bicycle" /\ ret[i][3] = 1
              \/ ret[i][1] \in TransitModes /\ ret[i][3] = 2
              \/ ret[i][1] = "driving"
                    /\ ret[i][3] = (IF args.distance_km <= 3 THEN 3 ELSE 1)
        /\ \A i \in 1..(Len(ret) - 1) : ret[i][3] < ret[i + 1][3]

(***************************************************************************)
(* Claims about TravelTimeExtractor.                                       *)
(***************************************************************************)
Extractors ==
    {"extract_driving_time", "extract_transit_time", "extract_transit_details",
     "extract_bicycling_time", "extract_distance"}

HasKey(x, k) == x[1] = "dict" /\ DictHas(x[2], k)

Field(x, k) == DictLookup(x[2], k)

\* The response holds route.<key>, a non-empty list.
HasRouteList(r, key) ==
    /\ HasKey(r, kRoute)
    /\ HasKey(Field(r, kRoute), key)
    /\ Field(Field(r, kRoute), key)[1] = "list"
    /\ Len(Field(Field(r, kRoute), key)[2]) > 0

RouteList(r, key) == Field(Field(r, kRoute), key)[2]

IsMappingWithout(x, k) == x[1] = "dict" /\ ~DictHas(x[2], k)

\* C2: whatever the response, each of the five extractors returns a value
\* or None, and never raises.
C2_ExtractorsNeverRaise ==
    (pc = "done" /\ op \in Extractors) => ~IsRaise(ret)

\* C3: a missing "duration" gives None, never a number: the driving time
\* when the first path has no duration, the transit time when an offered
\* itinerary has no duration.
C3_MissingDurationIsNone ==
    /\ ( /\ pc = "done" /\ op = "extract_driving_time"
         /\ HasRouteList(args.api_response, kPaths)
         /\ IsMappingWithout(RouteList(args.api_response, kPaths)[1], kDuration) )
          => ret = PyNone
    /\ ( /\ pc = "done" /\ op = "extract_transit_time"
         /\ HasRouteList(args.api_response, kTransits)
         /\ \E i \in 1..Len(RouteList(args.api_response, kTransits)) :
               IsMappingWithout(RouteList(args.api_response, kTransits)[i], kDuration) )
          => ret = PyNone

(***************************************************************************)
(* Claims about calculate_departure_times.                                 *)
(***************************************************************************)
IsDeparture == pc = "done" /\ op = "calculate_departure_times"

\* Two digits, a colon, two digits, hour 00..23 and minute 00..59.
StrictHHMM(s) ==
    /\ Len(s) = 5
    /\ IsDigit(s[1]) /\ IsDigit(s[2]) /\ s[3] = ":" /\ IsDigit(s[4]) /\ IsDigit(s[5])
    /\ 10 * DigitVal(s[1]) + DigitVal(s[2]) <= 23
    /\ 10 * DigitVal(s[4]) + DigitVal(s[5]) <= 59

\* Minutes after midnight of a strict HH:MM string.
ClockMinutes(s) ==
    60 * (10 * DigitVal(s[1]) + DigitVal(s[2])) + 10 * DigitVal(s[4]) + DigitVal(s[5])

\* The HH:MM rendering of m minutes after midnight, 0 <= m < 1440.
RenderClock(m) ==
    << DigitSeq[((m \div 60) \div 10) + 1], DigitSeq[((m \div 60) % 10) + 1], ":",
       DigitSeq[((m % 60) \div 10) + 1], DigitSeq[((m % 60) % 10) + 1] >>

\* C4: the call succeeds exactly for the strict HH:MM strings and raises
\* ValueError for every other string.
C4_StrictHHMMOnly ==
    IsDeparture =>
        IF StrictHHMM(args.meeting_time)
            THEN ret[1] = "list"
            ELSE ret = Raise("ValueError")

\* Every entry's departure_time is the clock time (60*H + M - (travel +
\* buffer)) modulo 1440 and its arrival_time is the meeting time.
ClockArithmetic ==
    (IsDeparture /\ StrictHHMM(args.meeting_time)) =>
        /\ ret[1] = "list"
        /\ \A i \in 1..Len(ret[2]) :
              /\ ret[2][i].departure_time =
                    RenderClock((ClockMinutes(args.meeting_time)
                                  - (args.travel_times[i] + args.buffer_min)) % 1440)
              /\ ret[2][i].arrival_time = args.meeting_time

IsDocExample ==
    /\ IsDeparture
    /\ args.meeting_time = <<"1", "4", ":", "3", "0">>
    /\ args.travel_times = <<19, 6, 17>>
    /\ args.buffer_min = buffer_min_default
    /\ Len(args.participants) = 3

DepartureClocks == [i \in 1..Len(ret[2]) |-> ret[2][i].departure_time]

C6_EntriesPairUp ==
    IsDeparture =>
        /\ StrictHHMM(args.meeting_time) => ret[1] = "list"
        /\ ret[1] = "list" =>
              /\ Len(ret[2]) = Min2(Len(args.participants), Len(args.travel_times))
              /\ \A i \in 1..Len(ret[2]) :
                    /\ ret[2][i].name = args.participants[i]
                    /\ ret[2][i].travel_min = args.travel_times[i]

C6_Witness ==
    /\ IsDeparture
    /\ Len(args.participants) = 4
    /\ Len(args.travel_times) = 2
    /\ ret[1] = "list"
    /\ Len(ret[2]) = 2
    /\ ret[2][2].name = "B"

(***************************************************************************)
(* Claims about RestaurantRanker.                                          *)
(***************************************************************************)
\* C7: for rating in [0,5], review_count >= 0 and distance_km >= 0, with the
\* default references, the score lies in [0,100].
C7_ScoreWithin0And100 ==
    (pc = "done" /\ op = "calculate_restaurant_score") =>
        (0 <= ret /\ ret <= 100 * Unit)

IsRank == pc = "done" /\ op = "rank_restaurants"

\* The place of the venue with this id in a list.
PlaceOf(list, id) == CHOOSE i \in 1..Len(list) : list[i].id = id

\* The score the claim expects for a venue as it was passed in.
ExpectedScore(venue, f) ==
    calculate_restaurant_score(
        IF "rating" \in venue.has THEN venue.rating ELSE 0,
        IF "review_count" \in venue.has THEN venue.review_count ELSE 0,
        IF f # "None" THEN ApplyDistanceFunc(f, venue.location)
        ELSE IF "distance_km" \in venue.has THEN venue.distance_km ELSE 10,
        ref_reviews_default, ref_distance_default)

\* C8: a second call on the list the first call returned, with the same
\* distance function, leaves the order and every score as they were.
C8_RankIdempotent ==
    [][(op = "rank_restaurants" /\ op' = "rank_restaurants" /\ calls' = calls + 1)
          => restaurants' = restaurants]_vars

C8_Witness ==
    /\ IsRank
    /\ calls = 2
    /\ Len(restaurants) = 3
    /\ restaurants[1].score > restaurants[2].score
    /\ restaurants[2].score = restaurants[3].score

\* C9: the call returns the list object it was given, holding the same
\* venues, each with score = calculate_restaurant_score(rating, review_count,
\* distance), distance from the function if one is supplied and else from
\* the distance_km field (1.0 if absent); scores are non-increasing and
\* venues with equal scores keep their input order.
C9_RankSortedStablePermutation ==
    IsRank =>
        LET in == args.restaurants
            f == args.distance_km_func
        IN  /\ ret = "restaurants"
            /\ Len(restaurants) = Len(in)
            /\ \A i \in 1..Len(in) : \E j \in 1..Len(restaurants) :
                  /\ restaurants[j].id = in[i].id
                  /\ restaurants[j].score = ExpectedScore(in[i], f)
                  /\ "score" \in restaurants[j].has
                  /\ \A k \in AllKeys \ {"id", "name"} :
                        restaurants[j][k] = in[i][k]
            /\ \A i \in 1..(Len(restaurants) - 1) :
                  restaurants[i].score >= restaurants[i + 1].score
            /\ \A i, j \in 1..Len(restaurants) :
                  (i < j /\ restaurants[i].score = restaurants[j].score)
                      => PlaceOf(in, restaurants[i].id) < PlaceOf(in, restaurants[j].id)

C9_Witness ==
    /\ IsRank
    /\ calls = 1
    /\ args.distance_km_func = "None"
    /\ Len(restaurants) = 3
    /\ restaurants[1].id # args.restaurants[1].id
    /\ \E i \in 1..3 : "distance_km" \notin restaurants[i].has
    /\ \E i \in 1..2 : restaurants[i].score = restaurants[i + 1].score

(***************************************************************************)
(* Claims about the transit itineraries.                                   *)
(***************************************************************************)
\* Seconds or metres as the provider sends them: an int or a str of digits.
IsNumber(v) ==
    \/ v[1] = "int"
    \/ v[1] = "str" /\ Len(v[2]) > 0 /\ \A i \in 1..Len(v[2]) : IsDigit(v[2][i])

NumberOf(v) == IF v[1] = "int" THEN v[2] ELSE DecimalValue(v[2])

HasNumber(x, k) == HasKey(x, k) /\ IsNumber(Field(x, k))

\* A stop, where there is one, is a mapping.
StopIsMapping(x, k) == HasKey(x, k) => Field(x, k)[1] = "dict"

\* A rail or bus line: a mapping with a numeric duration.
WellFormedLine(line) ==
    /\ HasNumber(line, kDuration)
    /\ StopIsMapping(line, kDepartureStop)
    /\ StopIsMapping(line, kArrivalStop)

WellFormedWalking(walking) ==
    /\ HasNumber(walking, kDuration)
    /\ HasKey(walking, kDistance) => IsNumber(Field(walking, kDistance))

\* The bus lines of a bus part, none when the part does not list any.
BusLines(bus_part) ==
    IF HasKey(bus_part, kBuslines) THEN Field(bus_part, kBuslines)[2] ELSE << >>

WellFormedBus(bus_part) ==
    /\ bus_part[1] = "dict"
    /\ HasKey(bus_part, kBuslines) => Field(bus_part, kBuslines)[1] = "list"
    /\ \A i \in 1..Len(BusLines(bus_part)) : WellFormedLine(BusLines(bus_part)[i])

WellFormedSegment(segment) ==
    /\ segment[1] = "dict"
    /\ HasKey(segment, kWalking) => WellFormedWalking(Field(segment, kWalking))
    /\ HasKey(segment, kRailway) => WellFormedLine(Field(segment, kRailway))
    /\ HasKey(segment, kBus) => WellFormedBus(Field(segment, kBus))

\* The segments of an itinerary, none when it does not list any.
SegmentsOf(transit) ==
    IF HasKey(transit, kSegments) THEN Field(transit, kSegments)[2] ELSE << >>

\* An itinerary: a mapping with a numeric duration and well-formed segments.
WellFormedTransit(transit) ==
    /\ HasNumber(transit, kDuration)
    /\ HasKey(transit, kSegments) => Field(transit, kSegments)[1] = "list"
    /\ \A i \in 1..Len(SegmentsOf(transit)) : WellFormedSegment(SegmentsOf(transit)[i])

WellFormedTransits(r) ==
    /\ HasRouteList(r, kTransits)
    /\ \A i \in 1..Len(RouteList(r, kTransits)) :
          WellFormedTransit(RouteList(r, kTransits)[i])

\* The first of the itineraries with the least duration.
Shortest(transits) ==
    transits[CHOOSE i \in 1..Len(transits) :
        /\ \A j \in 1..Len(transits) :
              NumberOf(Field(transits[i], kDuration))
                 <= NumberOf(Field(transits[j], kDuration))
        /\ \A j \in 1..(i - 1) :
              NumberOf(Field(transits[j], kDuration))
                 > NumberOf(Field(transits[i], kDuration))]

\* A bus segment is one whose bus part lists at least one line.
IsBusSegment(segment) ==
    HasKey(segment, kBus) /\ BusLines(Field(segment, kBus)) # << >>

\* The parts of one segment, each <<type, seconds>>: walking, rail, bus.
PartsOfSegment(segment) ==
    (IF HasKey(segment, kWalking)
        THEN << <<"walking", NumberOf(Field(Field(segment, kWalking), kDuration))>> >>
        ELSE << >>)
    \o (IF HasKey(segment, kRailway)
           THEN << <<"railway", NumberOf(Field(Field(segment, kRailway), kDuration))>> >>
           ELSE << >>)
    \o (IF IsBusSegment(segment)
           THEN << <<"bus", NumberOf(Field(BusLines(Field(segment, kBus))[1], kDuration))>> >>
           ELSE << >>)

RECURSIVE PartsOf(_)
PartsOf(segments) ==
    IF segments = << >> THEN << >>
    ELSE PartsOfSegment(Head(segments)) \o PartsOf(Tail(segments))

\* The seconds of the parts whose type is one of `types`.
RECURSIVE SecondsOf(_, _)
SecondsOf(parts, types) ==
    IF parts = << >> THEN 0
    ELSE (IF Head(parts)[1] \in types THEN Head(parts)[2] ELSE 0)
            + SecondsOf(Tail(parts), types)

CountOf(parts, types) == Cardinality({i \in 1..Len(parts) : parts[i][1] \in types})

IsDetails == pc = "done" /\ op = "extract_transit_details"

\* C11: on a response whose itineraries and segments are well formed, the
\* details are those of the segments of the shortest itinerary taken in
\* order: transfer_count is the number of rail segments plus the number of
\* bus segments, transfer_time is 4.0 * transfer_count, walking_time is the
\* sum of the walking durations in minutes, pure_transit_time is the sum of
\* the rail durations and of the first bus line's duration of each bus
\* segment in minutes, and route_details has one entry per walking, rail or
\* bus part in traversal order.
C11_DetailsOfShortest ==
    (IsDetails /\ WellFormedTransits(args.api_response)) =>
        LET parts == PartsOf(SegmentsOf(Shortest(RouteList(args.api_response, kTransits))))
            count == CountOf(parts, {"railway", "bus"})
        IN  /\ ret[1] = "details"
            /\ ret[5] = count
            /\ ret[6] = PyFloat(4 * count, 1)
            /\ ret[4] = PyFloat(SecondsOf(parts, {"walking"}), 60)
            /\ ret[3] = PyFloat(SecondsOf(parts, {"railway", "bus"}), 60)
            /\ Len(ret[7]) = Len(parts)
            /\ \A i \in 1..Len(parts) :
                  /\ ret[7][i][1] = parts[i][1]
                  /\ ret[7][i][2] = PyFloat(parts[i][2], 60)

\* A walk and a bus ride in one segment, then a rail ride: two transfers.
C11_Witness ==
    /\ IsDetails
    /\ WellFormedTransits(args.api_response)
    /\ ret[1] = "details"
    /\ ret[5] = 2
    /\ ret[4] = PyFloat(120, 60)
    /\ ret[3] = PyFloat(210, 60)
    /\ Len(ret[7]) = 3
    /\ ret[7][2][1] = "bus"
    /\ ret[7][3][1] = "railway"

IsTransitTime == pc = "done" /\ op = "extract_transit_time"

\* The route/transits structure is absent or empty: the response or its
\* route is no mapping, a key is missing, or transits is null or empty.
NoTransits(r) ==
    \/ ~HasKey(r, kRoute)
    \/ ~HasKey(Field(r, kRoute), kTransits)
    \/ Field(Field(r, kRoute), kTransits) = PyNone
    \/ /\ Field(Field(r, kRoute), kTransits)[1] \in {"list", "dict", "str"}
       /\ Len(Field(Field(r, kRoute), kTransits)[2]) = 0

\* The durations, in seconds, that the itineraries of the response offer.
OfferedDurations(r) ==
    IF ~HasRouteList(r, kTransits) THEN {}
    ELSE { NumberOf(Field(RouteList(r, kTransits)[i], kDuration)) :
              i \in { j \in 1..Len(RouteList(r, kTransits)) :
                         HasNumber(RouteList(r, kTransits)[j], kDuration) } }

IsLeast(n, S) == n \in S /\ \A m \in S : n <= m

\* Both functions return a value on the response of this call.
BothReturn ==
    /\ IsTransitTime
    /\ ret[1] = "float"
    /\ extract_transit_details(args.api_response)[1] = "details"

\* On a response on which both return a value, the total_time of the
\* details is the value of extract_transit_time.
TotalTimeAgrees ==
    BothReturn => extract_transit_details(args.api_response)[2] = ret

\* Without a route/transits structure, or with an empty one, both return
\* None.
NoTransitsNoResult ==
    (IsTransitTime /\ NoTransits(args.api_response)) =>
        /\ ret = PyNone
        /\ extract_transit_details(args.api_response) = PyNone

\* C12: extract_transit_time and extract_transit_details agree: where both
\* return a value the total_time of the details is the transit time, and it
\* is the least duration (seconds / 60) that the itineraries offer; where
\* the route/transits structure is absent or empty both return None.
C12_TransitTimeAgreesWithDetails ==
    /\ TotalTimeAgrees
    /\ NoTransitsNoResult
    /\ BothReturn =>
          \E n \in OfferedDurations(args.api_response) :
              /\ IsLeast(n, OfferedDurations(args.api_response))
              /\ ret = PyFloat(n, 60)

====
